---- MODULE Spec2Model ----
(***************************************************************************)
(* Replacit: bulk find-and-replace over .txt and .docx documents.          *)
(*                                                                         *)
(* A string is a sequence of characters.  A character is one code unit of  *)
(* text, or one markup lexeme of the OOXML payload that the patterns of    *)
(* the code only ever match whole ("<w:t", "</w:t", "<w:p", "</w:p",       *)
(* "<w:r", "</w:r", "xml:space=\"preserve\"").  The closing ">" of a tag   *)
(* and a bare "<" are characters of their own, so the character classes    *)
(* [^>] and [^<] of the code mean the same here as in the source.          *)
(***************************************************************************)
EXTENDS Integers, Sequences, FiniteSets, TLC

-----------------------------------------------------------------------------
(* Values that may be absent (null) or thrown.                             *)

Null == [tag |-> "null"]

Thrown == [tag |-> "throw"]

Val(v) == [tag |-> "val", v |-> v]

IsNull(x) == x.tag = "null"

IsThrown(x) == x.tag = "throw"

\* A const declaration: the value v under the name F gives it.
With(v, F(_)) == F(v)

-----------------------------------------------------------------------------
(* Characters.                                                             *)

\* \w of the regular-expression engine, restricted to the model's alphabet.
WordChars ==
    {"a", "b", "c", "e", "f", "n", "o", "t", "z", "A", "B", "C", "E", "F", "N", "O", "T", "Z",
     "1"}

\* Characters whose first code unit is "<" (what [^<] rejects).
LtChars == {"<", "<w:t", "</w:t", "<w:p", "</w:p", "<w:r", "</w:r", "<w:pPr"}

\* toUpperCase on one character (the Canonicalize step of the "i" flag).
Canonicalize(c) ==
    CASE c = "a" -> "A"
      [] c = "b" -> "B"
      [] c = "c" -> "C"
      [] c = "e" -> "E"
      [] c = "f" -> "F"
      [] c = "n" -> "N"
      [] c = "o" -> "O"
      [] c = "t" -> "T"
      [] c = "z" -> "Z"
      [] OTHER -> c

RECURSIVE Flatten(_)
\* Array.prototype.join('') over an array of strings.
Flatten(ss) == IF ss = <<>> THEN <<>> ELSE Head(ss) \o Flatten(Tail(ss))

\* String.prototype.slice(from, to) with 0-based bounds 0 <= from.
Slice(s, from, to) == SubSeq(s, from + 1, IF to > Len(s) THEN Len(s) ELSE to)

\* String.prototype.slice(from).
SliceFrom(s, from) == SubSeq(s, from + 1, Len(s))

-----------------------------------------------------------------------------
(* The regular-expression engine (new RegExp, exec, String.replace) for    *)
(* the pattern syntax the model's alphabet can spell: literal characters,  *)
(* ".", "\" escapes, "\b", "^", "$", the quantifier "*", top-level "|",    *)
(* and the errors "(" , ")" and "[" raise when unbalanced (the alphabet    *)
(* has no "]", no "+", "?", "{" and no digits after "\").                  *)

\* The characters escapeRegexChars escapes: [.*+?^${}()|[\]\\]
SyntaxChars == {".", "*", "+", "?", "^", "$", "{", "}", "(", ")", "|", "[", "]", "\\"}

\* escapeRegexChars that escapes nothing.
escapeRegexCharsNone(str) == str

RECURSIVE escapeRegexChars(_)
escapeRegexChars(str) ==
    IF str = <<>> THEN <<>>
    ELSE (IF Head(str) \in SyntaxChars THEN <<"\\", Head(str)>> ELSE <<Head(str)>>)
         \o escapeRegexChars(Tail(str))

Term(k, c, star) == [k |-> k, c |-> c, star |-> star]

\* The atom a backslash escape denotes.
EscapeAtom(c) ==
    CASE c = "b" -> Term("wordb", c, FALSE)
      [] c = "B" -> Term("nonwordb", c, FALSE)
      [] c = "f" -> Term("never", c, FALSE)
      [] OTHER -> Term("chr", c, FALSE)

IsAssertion(t) == t.k \in {"wordb", "nonwordb", "begin", "end"}

RECURSIVE ParseTerms(_, _, _)
\* The terms of a pattern source from position i on, with "|" kept as a
\* term; Thrown for a SyntaxError.
ParseTerms(src, i, acc) ==
    IF i > Len(src) THEN Val(acc)
    ELSE LET c == src[i]
             starred(j) == j <= Len(src) /\ src[j] = "*"
             atom(t, next) ==
                 IF starred(next)
                 THEN ParseTerms(src, next + 1, Append(acc, Term(t.k, t.c, TRUE)))
                 ELSE ParseTerms(src, next, Append(acc, t))
         IN  CASE c = "\\" ->
                    IF i = Len(src) THEN Thrown
                    ELSE LET t == EscapeAtom(src[i + 1])
                         IN  IF IsAssertion(t)
                             THEN ParseTerms(src, i + 2, Append(acc, t))
                             ELSE atom(t, i + 2)
               [] c = "." -> atom(Term("any", c, FALSE), i + 1)
               [] c = "^" -> ParseTerms(src, i + 1, Append(acc, Term("begin", c, FALSE)))
               [] c = "$" -> ParseTerms(src, i + 1, Append(acc, Term("end", c, FALSE)))
               [] c = "|" -> ParseTerms(src, i + 1, Append(acc, Term("bar", c, FALSE)))
               [] c \in {"*", "+", "?"} -> Thrown
               [] c \in {"(", ")", "["} -> Thrown
               [] OTHER -> atom(Term("chr", c, FALSE), i + 1)

RECURSIVE SplitBars(_, _, _)
\* The alternatives of a term sequence: split at every "|".
SplitBars(terms, cur, acc) ==
    IF terms = <<>> THEN Append(acc, cur)
    ELSE IF Head(terms).k = "bar"
         THEN SplitBars(Tail(terms), <<>>, Append(acc, cur))
         ELSE SplitBars(Tail(terms), Append(cur, Head(terms)), acc)

\* new RegExp(source, flags): flags is "g" or "gi".
NewRegExp(source, ignoreCase) ==
    With(ParseTerms(source, 1, <<>>), LAMBDA p :
        IF IsThrown(p) THEN Thrown
        ELSE [tag |-> "regex", alts |-> SplitBars(p.v, <<>>, <<>>),
              ignoreCase |-> ignoreCase, lastIndex |-> 0])

IsWordAt(text, p) == p >= 1 /\ p <= Len(text) /\ text[p] \in WordChars

\* Does the character ch match the one-character term t?
CharMatches(t, ch, ic) ==
    CASE t.k = "any" -> TRUE
      [] t.k = "chr" -> IF ic THEN Canonicalize(t.c) = Canonicalize(ch) ELSE t.c = ch
      [] OTHER -> FALSE

\* Does the assertion t hold with p characters of text before it?
AssertionHolds(t, text, p) ==
    CASE t.k = "begin" -> p = 0
      [] t.k = "end" -> p = Len(text)
      [] t.k = "wordb" -> IsWordAt(text, p) # IsWordAt(text, p + 1)
      [] t.k = "nonwordb" -> IsWordAt(text, p) = IsWordAt(text, p + 1)
      [] OTHER -> FALSE

RECURSIVE MaxRun(_, _, _, _)
\* The longest run of characters from position p that the term t matches.
MaxRun(t, text, p, ic) ==
    IF p < Len(text) /\ CharMatches(t, text[p + 1], ic)
    THEN 1 + MaxRun(t, text, p + 1, ic)
    ELSE 0

RECURSIVE MatchSeq(_, _, _, _, _)
RECURSIVE TryReps(_, _, _, _, _, _)
\* The end position of the match of terms[k..] at position p, by the
\* engine's backtracking order (greedy "*"); -1 when there is none.
MatchSeq(terms, k, text, p, ic) ==
    IF k > Len(terms) THEN p
    ELSE LET t == terms[k]
         IN  IF IsAssertion(t)
             THEN IF AssertionHolds(t, text, p)
                  THEN MatchSeq(terms, k + 1, text, p, ic) ELSE -1
             ELSE IF t.star
             THEN TryReps(terms, k, text, p, ic, MaxRun(t, text, p, ic))
             ELSE IF p < Len(text) /\ CharMatches(t, text[p + 1], ic)
                  THEN MatchSeq(terms, k + 1, text, p + 1, ic) ELSE -1

TryReps(terms, k, text, p, ic, n) ==
    IF n < 0 THEN -1
    ELSE With(MatchSeq(terms, k + 1, text, p + n, ic), LAMBDA r :
             IF r >= 0 THEN r ELSE TryReps(terms, k, text, p, ic, n - 1))

RECURSIVE MatchAlts(_, _, _, _)
\* The first alternative that matches at position p decides the match.
MatchAlts(alts, text, p, ic) ==
    IF alts = <<>> THEN -1
    ELSE With(MatchSeq(Head(alts), 1, text, p, ic), LAMBDA r :
             IF r >= 0 THEN r ELSE MatchAlts(Tail(alts), text, p, ic))

RECURSIVE ScanFrom(_, _, _)
\* The leftmost match at or after position p: <<index, end>>, or <<-1, -1>>.
ScanFrom(rx, text, p) ==
    IF p > Len(text) THEN <<-1, -1>>
    ELSE With(MatchAlts(rx.alts, text, p, rx.ignoreCase), LAMBDA e :
             IF e >= 0 THEN <<p, e>> ELSE ScanFrom(rx, text, p + 1))

\* RegExp.prototype.exec of a global expression: reads and writes lastIndex.
\* [found, index, end, rx] where rx carries the new lastIndex.
RegExpExec(rx, text) ==
    With(IF rx.lastIndex > Len(text) THEN <<-1, -1>>
         ELSE ScanFrom(rx, text, rx.lastIndex), LAMBDA m :
        IF m[1] < 0
        THEN [found |-> FALSE, index |-> 0, end |-> 0,
              rx |-> [rx EXCEPT !.lastIndex = 0]]
        ELSE [found |-> TRUE, index |-> m[1], end |-> m[2],
              rx |-> [rx EXCEPT !.lastIndex = m[2]]])

RECURSIVE GetSubstitution(_, _, _, _)
\* GetSubstitution of String.prototype.replace for an expression without
\* capture groups: "$$" stands for "$" and "$&" for the matched text; every
\* other "$" of the alphabet is literal (the alphabet has neither the
\* backtick nor the apostrophe of the two remaining placeholders).
GetSubstitution(matched, str, position, replacement) ==
    IF replacement = <<>> THEN <<>>
    ELSE IF Head(replacement) = "$" /\ Len(replacement) >= 2
              /\ replacement[2] \in {"$", "&"}
         THEN (IF replacement[2] = "$" THEN <<"$">> ELSE matched)
              \o GetSubstitution(matched, str, position, SubSeq(replacement, 3, Len(replacement)))
         ELSE <<Head(replacement)>>
              \o GetSubstitution(matched, str, position, Tail(replacement))

RECURSIVE ReplaceLoopNoTail(_, _, _, _, _)
\* The replace loop that does not copy the text after the last match.
ReplaceLoopNoTail(rx, text, replacement, acc, nextPos) ==
    With(RegExpExec(rx, text), LAMBDA r :
        IF ~r.found
        THEN [str |-> acc, rx |-> r.rx]
        ELSE With(IF r.end = r.index
                  THEN [r.rx EXCEPT !.lastIndex = r.rx.lastIndex + 1]
                  ELSE r.rx, LAMBDA rx2 :
                 IF r.index >= nextPos
                 THEN ReplaceLoopNoTail(rx2, text, replacement,
                                        acc \o Slice(text, nextPos, r.index)
                                            \o GetSubstitution(Slice(text, r.index, r.end),
                                                               text, r.index, replacement),
                                        r.end)
                 ELSE ReplaceLoopNoTail(rx2, text, replacement, acc, nextPos)))

RECURSIVE ReplaceLoop(_, _, _, _, _)
\* The loop of RegExp.prototype[Symbol.replace] for a global expression:
\* exec until null, stepping lastIndex past an empty match; acc is the
\* accumulated result and nextPos the next source position to copy from.
ReplaceLoop(rx, text, replacement, acc, nextPos) ==
    With(RegExpExec(rx, text), LAMBDA r :
        IF ~r.found
        THEN [str |-> acc \o SliceFrom(text, nextPos), rx |-> r.rx]
        ELSE With(IF r.end = r.index
                  THEN [r.rx EXCEPT !.lastIndex = r.rx.lastIndex + 1]
                  ELSE r.rx, LAMBDA rx2 :
                 IF r.index >= nextPos
                 THEN ReplaceLoop(rx2, text, replacement,
                                  acc \o Slice(text, nextPos, r.index)
                                      \o GetSubstitution(Slice(text, r.index, r.end),
                                                         text, r.index, replacement),
                                  r.end)
                 ELSE ReplaceLoop(rx2, text, replacement, acc, nextPos)))

\* text.replace(regex, replacement) with a global regex and a string
\* replacement: lastIndex is set to 0 first.  [str, rx].
StringReplace(text, rx, replacement) ==
    ReplaceLoop([rx EXCEPT !.lastIndex = 0], text, replacement, <<>>, 0)

-----------------------------------------------------------------------------
(* replacer.js: the pattern compiler and the flat replacer.                *)

\* The option sets { isCaseSensitive, isWholeWord, isRegex }.
Options(cs, ww, re) == [isCaseSensitive |-> cs, isWholeWord |-> ww, isRegex |-> re]

\* buildRegex without the test for an empty pattern.
buildRegexAlways(pattern, options) ==
    NewRegExp(IF options.isWholeWord
              THEN <<"\\", "b">>
                   \o (IF options.isRegex THEN pattern ELSE escapeRegexChars(pattern))
                   \o <<"\\", "b">>
              ELSE IF options.isRegex THEN pattern ELSE escapeRegexChars(pattern),
              ~options.isCaseSensitive)

\* buildRegex that does not read isWholeWord.
buildRegexNoWord(pattern, options) ==
    IF pattern = <<>> THEN Null
    ELSE NewRegExp(IF options.isRegex THEN pattern ELSE escapeRegexChars(pattern),
                   ~options.isCaseSensitive)

\* buildRegex: Null for an empty pattern, Thrown when new RegExp throws,
\* else the compiled global expression.
buildRegex(pattern, options) ==
    IF pattern = <<>> THEN Null
    ELSE LET source == IF options.isRegex THEN pattern ELSE escapeRegexChars(pattern)
             wrapped == IF options.isWholeWord
                        THEN <<"\\", "b">> \o source \o <<"\\", "b">>
                        ELSE source
         IN  NewRegExp(wrapped, ~options.isCaseSensitive)

\* replaceAll: Val(the new text), or Thrown.
replaceAll(text, pattern, replacement, options) ==
    With(buildRegex(pattern, options), LAMBDA regex :
        IF IsThrown(regex) THEN Thrown
        ELSE IF IsNull(regex) THEN Val(text)
        ELSE Val(StringReplace(text, regex, replacement).str))

-----------------------------------------------------------------------------
(* docxProcessor: the text model of word/document.xml.                     *)

RECURSIVE FirstIndex(_, _, _)
\* The least index i >= from (1-based) with s[i] in set; Len(s) + 1 if none.
FirstIndex(s, from, set) ==
    IF from > Len(s) THEN Len(s) + 1
    ELSE IF s[from] \in set THEN from ELSE FirstIndex(s, from + 1, set)

\* One match of /<w:t([^>]*)>([^<]*)<\/w:t>/ starting at 0-based position p,
\* as the segment record of replaceInParagraph; found is FALSE if none.
TextTagAt(s, p) ==
    With(FirstIndex(s, p + 2, {">"}), LAMBDA g :
    With(FirstIndex(s, g + 1, LtChars), LAMBDA h :
        IF p + 1 <= Len(s) /\ s[p + 1] = "<w:t" /\ g <= Len(s)
           /\ h + 1 <= Len(s) /\ s[h] = "</w:t" /\ s[h + 1] = ">"
        THEN [found |-> TRUE, fullMatch |-> SubSeq(s, p + 1, h + 1),
              attrs |-> SubSeq(s, p + 2, g - 1), text |-> SubSeq(s, g + 1, h - 1),
              start |-> p, end |-> h + 1]
        ELSE [found |-> FALSE, fullMatch |-> <<>>, attrs |-> <<>>, text |-> <<>>,
              start |-> 0, end |-> 0]))

RECURSIVE Segments(_, _)
\* The exec loop over textTagRegex from lastIndex p: all segments in order.
Segments(s, p) ==
    IF p >= Len(s) THEN <<>>
    ELSE With(TextTagAt(s, p), LAMBDA m :
             IF m.found THEN <<m>> \o Segments(s, m.end) ELSE Segments(s, p + 1))

\* The text of every segment, in order.
SegmentTexts(segs) == [i \in 1..Len(segs) |-> segs[i].text]

\* extractTextFromXml that falls back to the xml itself when no <w:t>
\* element is found.
extractTextFromXmlRaw(xml) ==
    IF Segments(xml, 0) = <<>> THEN xml ELSE Flatten(SegmentTexts(Segments(xml, 0)))

\* extractTextFromXml: the contents of all <w:t> elements, joined.
extractTextFromXml(xml) == Flatten(SegmentTexts(Segments(xml, 0)))

\* The attribute string ' xml:space="preserve"'.
PreserveAttr == <<" ", "xml:space=\"preserve\"">>

\* NewTag without the test i === 0: every fragment receives the new text.
NewTagEvery(segment, i, replacedText) ==
    <<"<w:t">> \o (IF Len(replacedText) > 0 THEN PreserveAttr ELSE segment.attrs)
    \o <<">">> \o replacedText \o <<"</w:t", ">">>

\* NewTag that keeps the attributes of the segment whatever the new text.
NewTagOwnAttrs(segment, i, replacedText) ==
    <<"<w:t">> \o segment.attrs \o <<">">>
    \o (IF i = 0 THEN replacedText ELSE <<>>) \o <<"</w:t", ">">>

\* The tag the loop of replaceInParagraph writes for segment i (0-based).
NewTag(segment, i, replacedText) ==
    LET newText == IF i = 0 THEN replacedText ELSE <<>>
        attrs == IF Len(newText) > 0 THEN PreserveAttr ELSE segment.attrs
    IN  <<"<w:t">> \o attrs \o <<">">> \o newText \o <<"</w:t", ">">>

RECURSIVE Redistribute(_, _, _, _)
\* The loop for (i = segments.length - 1; i >= 0; i--) of replaceInParagraph.
Redistribute(result, segments, i, replacedText) ==
    IF i < 0 THEN result
    ELSE LET segment == segments[i + 1]
         IN  Redistribute(Slice(result, 0, segment.start)
                            \o NewTag(segment, i, replacedText)
                            \o SliceFrom(result, segment.end),
                          segments, i - 1, replacedText)

\* replaceInParagraph without the early return for an unchanged text: the
\* fragments are rewritten whenever there are any.
replaceInParagraphAlways(paragraphXml, regex, replacement) ==
    With(Segments(paragraphXml, 0), LAMBDA segments :
        IF Len(segments) = 0 THEN [xml |-> paragraphXml, rx |-> regex]
        ELSE With(StringReplace(Flatten(SegmentTexts(segments)), regex, replacement),
                  LAMBDA replaced :
                     [xml |-> Redistribute(paragraphXml, segments, Len(segments) - 1,
                                           replaced.str),
                      rx |-> replaced.rx]))

\* replaceInParagraph: [xml, rx], the paragraph and the regex object as the
\* call leaves it.
replaceInParagraph(paragraphXml, regex, replacement) ==
    With(Segments(paragraphXml, 0), LAMBDA segments :
    With(Flatten(SegmentTexts(segments)), LAMBDA fullText :
        IF Len(segments) = 0 THEN [xml |-> paragraphXml, rx |-> regex]
        ELSE With(StringReplace(fullText, regex, replacement), LAMBDA replaced :
                 IF fullText = replaced.str THEN [xml |-> paragraphXml, rx |-> replaced.rx]
                 ELSE [xml |-> Redistribute(paragraphXml, segments, Len(segments) - 1,
                                            replaced.str),
                       rx |-> replaced.rx])))

\* One match of /<w:p[ >][\s\S]*?<\/w:p>/ at 0-based position p: its end
\* (exclusive, 0-based), or -1.
RECURSIVE ParagraphClose(_, _)
ParagraphClose(s, k) ==
    IF k + 1 > Len(s) THEN -1
    ELSE IF s[k] = "</w:p" /\ s[k + 1] = ">" THEN k + 1
    ELSE ParagraphClose(s, k + 1)

ParagraphAt(s, p) ==
    IF p + 2 <= Len(s) /\ s[p + 1] = "<w:p" /\ s[p + 2] \in {" ", ">"}
    THEN ParagraphClose(s, p + 3)
    ELSE -1

RECURSIVE ParagraphSpans(_, _)
\* The matches of the paragraph pattern, left to right: <<start, end>> pairs.
ParagraphSpans(s, p) ==
    IF p >= Len(s) THEN <<>>
    ELSE With(ParagraphAt(s, p), LAMBDA e :
             IF e >= 0 THEN <<<<p, e>>>> \o ParagraphSpans(s, e)
             ELSE ParagraphSpans(s, p + 1))

RECURSIVE ReplaceParagraphs(_, _, _, _, _, _)
\* xml.replace(paragraphPattern, callback): the callback runs once per match,
\* in order, on the one regex object; its results replace the matches.
ReplaceParagraphs(xml, spans, k, pos, regex, replacement) ==
    IF k > Len(spans) THEN SliceFrom(xml, pos)
    ELSE With(replaceInParagraph(Slice(xml, spans[k][1], spans[k][2]), regex, replacement),
              LAMBDA r :
                 Slice(xml, pos, spans[k][1]) \o r.xml
                 \o ReplaceParagraphs(xml, spans, k + 1, spans[k][2], r.rx, replacement))

\* replaceInXml without the split into paragraphs: the whole payload is
\* handed to replaceInParagraph as one block.
replaceInXmlWhole(xml, pattern, replacement, options) ==
    With(buildRegex(pattern, options), LAMBDA regex :
        IF IsThrown(regex) THEN Thrown
        ELSE IF IsNull(regex) THEN Val(xml)
        ELSE Val(replaceInParagraph(xml, regex, replacement).xml))

\* replaceInXml: Val(the new xml), or Thrown.
replaceInXml(xml, pattern, replacement, options) ==
    With(buildRegex(pattern, options), LAMBDA regex :
        IF IsThrown(regex) THEN Thrown
        ELSE IF IsNull(regex) THEN Val(xml)
        ELSE Val(ReplaceParagraphs(xml, ParagraphSpans(xml, 0), 1, 0, regex, replacement)))

-----------------------------------------------------------------------------
(* replacer.js: the match scanner.                                         *)

\* The guard of findMatches against zero-length matches left out: lastIndex
\* stays where exec put it.
FindGuardNone(rx, index, end) == rx

\* if (match[0].length === 0) regex.lastIndex++
FindGuard(rx, index, end) ==
    IF end = index THEN [rx EXCEPT !.lastIndex = rx.lastIndex + 1] ELSE rx

\* The loop of findMatches with an expression that is not global: every
\* exec starts from position 0.
FindStepFromZero(rx, text, positions) ==
    With(RegExpExec([rx EXCEPT !.lastIndex = 0], text), LAMBDA r :
        IF ~r.found THEN [done |-> TRUE, rx |-> r.rx, positions |-> positions]
        ELSE [done |-> FALSE,
              rx |-> FindGuard(r.rx, r.index, r.end),
              positions |-> Append(positions, [start |-> r.index, end |-> r.end,
                                               match |-> Slice(text, r.index, r.end)])])

\* One evaluation of the loop condition of findMatches and, when exec
\* returned a match, one run of the loop body: [done, rx, positions].
FindStep(rx, text, positions) ==
    With(RegExpExec(rx, text), LAMBDA r :
        IF ~r.found THEN [done |-> TRUE, rx |-> r.rx, positions |-> positions]
        ELSE [done |-> FALSE,
              rx |-> FindGuard(r.rx, r.index, r.end),
              positions |-> Append(positions, [start |-> r.index, end |-> r.end,
                                               match |-> Slice(text, r.index, r.end)])])

RECURSIVE FindLoop(_, _, _)
\* The while ((match = regex.exec(text)) !== null) loop of findMatches.
FindLoop(rx, text, positions) ==
    With(FindStep(rx, text, positions), LAMBDA s :
        IF s.done THEN s.positions ELSE FindLoop(s.rx, text, s.positions))

\* findMatches: Val([count, positions]), or Thrown.
findMatches(text, pattern, options) ==
    With(buildRegex(pattern, options), LAMBDA regex :
        IF IsThrown(regex) THEN Thrown
        ELSE IF IsNull(regex) THEN Val([count |-> 0, positions |-> <<>>])
        ELSE With(FindLoop(regex, text, <<>>), LAMBDA positions :
                 Val([count |-> Len(positions), positions |-> positions])))

-----------------------------------------------------------------------------
(* ReplacementList and Preview: what the handlers read from the page.      *)

\* The characters String.prototype.trim removes (of the model's alphabet).
WhiteSpace == {" "}

\* !str.trim(): the string is empty or whitespace only.
IsBlank(str) == \A i \in 1..Len(str) : str[i] \in WhiteSpace

\* getPairs without the test of the find field.
getPairsAll(rows) == rows

RECURSIVE getPairs(_)
\* getPairs: the rows of the page in DOM order, without the rows whose find
\* field is blank.
getPairs(rows) ==
    IF rows = <<>> THEN <<>>
    ELSE (IF IsBlank(Head(rows).find) THEN <<>> ELSE <<Head(rows)>>)
         \o getPairs(Tail(rows))

\* renderTextPreview: the match count it returns (Val), or Thrown.
renderTextPreview(text, pattern, options) ==
    IF text = <<>> THEN Val(0)
    ELSE IF pattern = <<>> \/ IsBlank(pattern) THEN Val(0)
    ELSE With(findMatches(text, pattern, options), LAMBDA m :
             IF IsThrown(m) THEN Thrown ELSE Val(m.v.count))

RECURSIVE highlightInHtml(_, _, _)
\* highlightInHtml: the matches summed over the text nodes of the preview.
highlightInHtml(nodes, pattern, options) ==
    IF nodes = <<>> THEN Val(0)
    ELSE With(findMatches(Head(nodes), pattern, options), LAMBDA m :
         With(highlightInHtml(Tail(nodes), pattern, options), LAMBDA rest :
             IF IsThrown(m) \/ IsThrown(rest) THEN Thrown
             ELSE Val(m.v.count + rest.v)))

\* renderHtmlPreview: the match count it returns (Val), or Thrown.  The
\* preview html is held as the sequence of its text nodes.
renderHtmlPreview(html, pattern, options) ==
    IF html = <<>> THEN Val(0)
    ELSE IF pattern = <<>> \/ IsBlank(pattern) THEN Val(0)
    ELSE highlightInHtml(html, pattern, options)

RECURSIVE ParagraphTexts(_, _, _)
\* The text of each paragraph of a payload that has any, in order.
ParagraphTexts(xml, spans, k) ==
    IF k > Len(spans) THEN <<>>
    ELSE With(extractTextFromXml(Slice(xml, spans[k][1], spans[k][2])), LAMBDA t :
             (IF t = <<>> THEN <<>> ELSE <<t>>) \o ParagraphTexts(xml, spans, k + 1))

\* generateHtmlPreview (mammoth.convertToHtml) of an archive: Thrown when the
\* archive has no main document part, else the text nodes of the html, one
\* per paragraph that has text, followed by the text mammoth renders from
\* outside the <w:t> elements of word/document.xml (footnotes, tabs).
generateHtmlPreview(archive) ==
    IF IsNull(archive.xml) THEN Thrown
    ELSE Val(ParagraphTexts(archive.xml.v, ParagraphSpans(archive.xml.v, 0), 1)
             \o archive.notes)

-----------------------------------------------------------------------------
(* Bounds and the inputs drawn from them.                                  *)

\* The most replace-alls in a row the history of a document follows.
MaxRounds == 2

\* The archive objects alive at once.
MaxZips == 6

\* The handlers suspended at an await when the user acts again.
MaxAwaiting == 1

Pair(find, replace) == [find |-> find, replace |-> replace]

\* The one empty row the list starts with (addPair on initialisation).
BlankRows == <<Pair(<<>>, <<>>)>>

\* The row lists a user types.
RowLists ==
    { BlankRows,
      <<Pair(<<"a">>, <<"b">>)>>,
      <<Pair(<<"b">>, <<"c">>)>>,
      <<Pair(<<"a">>, <<"b">>), Pair(<<"b", "b">>, <<"c">>)>>,
      <<Pair(<<"a">>, <<"b">>), Pair(<<" ">>, <<"c">>), Pair(<<"b">>, <<"c">>)>>,
      <<Pair(<<"a">>, <<>>), Pair(<<"b">>, <<>>)>>,
      <<Pair(<<"a">>, <<"b">>), Pair(<<"(">>, <<"c">>)>> }

\* What the page holds after an edit: any of the row lists with the
\* case-sensitive literal options, or, with the regex option checked, the
\* list with the unbalanced "(" second or the row with the unbalanced "(".
PageInputs ==
    {<<rows, Options(TRUE, FALSE, FALSE)>> : rows \in RowLists}
    \cup {<<<<Pair(<<"a">>, <<"b">>), Pair(<<"(">>, <<"c">>)>>, Options(TRUE, FALSE, TRUE)>>,
          <<<<Pair(<<"(">>, <<"c">>)>>, Options(TRUE, FALSE, TRUE)>>}

\* Serialized OOXML: a text element, a run, a paragraph.
TextTag(attrs, txt) == <<"<w:t">> \o attrs \o <<">">> \o txt \o <<"</w:t", ">">>

RunTag(body) == <<"<w:r", ">">> \o body \o <<"</w:r", ">">>

ParTag(body) == <<"<w:p", ">">> \o body \o <<"</w:p", ">">>

\* The files a user selects.  ext is what getFileExtension returns; text is
\* what FileReader yields for a .txt (readOk) ; archiveOk says JSZip can
\* decode the file; xml is the word/document.xml entry (Null: absent) and
\* notes the text mammoth renders from outside its <w:t> elements.
FileData ==
    << [ext |-> ".txt", readOk |-> TRUE, text |-> <<"a">>,
        archiveOk |-> FALSE, xml |-> Null, notes |-> <<>>],
       [ext |-> ".docx", readOk |-> TRUE, text |-> <<>>, archiveOk |-> TRUE,
        xml |-> Val(ParTag(RunTag(TextTag(<<>>, <<"a">>)))
                    \o ParTag(RunTag(TextTag(<<>>, <<"b">>)))),
        notes |-> <<<<"b">>>>],
       [ext |-> ".docx", readOk |-> TRUE, text |-> <<>>, archiveOk |-> TRUE,
        xml |-> Null, notes |-> <<>>],
       [ext |-> ".txt", readOk |-> FALSE, text |-> <<>>,
        archiveOk |-> FALSE, xml |-> Null, notes |-> <<>>],
       [ext |-> ".docx", readOk |-> TRUE, text |-> <<>>, archiveOk |-> TRUE,
        xml |-> Val(ParTag(<<"<w:pPr", ">">>)), notes |-> <<>>] >>

Files == 1..Len(FileData)

-----------------------------------------------------------------------------
(* main.js: the application state, the page, and the handlers in flight.   *)

VARIABLES
    state,   \* the state object of main.js
    zips,    \* the JSZip objects alive, by identity
    dom,     \* the page: the replacement rows, the options, the controls
    load,    \* handleFileSelected in flight
    rep,     \* handleReplaceAll in flight
    undo,    \* handleUndo in flight
    toast,   \* the last notification shown
    ghost,   \* the handler events since the last completed load (hist) and
             \* the values remembered with them, for the properties
    inp,     \* the arguments of a call of a pure function
    out      \* its result

vars == <<state, zips, dom, load, rep, undo, toast, ghost, inp, out>>

appVars == <<state, zips, dom, load, rep, undo, toast, ghost>>

NoZip == 0

NoFile == 0

ZipIds == 1..MaxZips

Free == [tag |-> "free", xml |-> Null, notes |-> <<>>]

Archive(xml, notes) == [tag |-> "zip", xml |-> xml, notes |-> notes]

\* The state object as main.js declares it.
InitState ==
    [currentFile |-> NoFile, fileType |-> "null", originalText |-> <<>>,
     currentText |-> <<>>, originalZip |-> NoZip, currentZip |-> NoZip,
     previewHtml |-> <<>>, undoText |-> Null, undoZip |-> NoZip,
     hasReplaced |-> FALSE]

InitDom ==
    [rows |-> BlankRows, options |-> Options(TRUE, FALSE, FALSE),
     replaceDisabled |-> TRUE, undoDisabled |-> TRUE, downloadDisabled |-> TRUE,
     sectionHidden |-> TRUE, fileInfoHidden |-> TRUE]

\* The page as it may start: the markup that sets the disabled attribute of
\* the three buttons is not among the sources, so each button starts in
\* either state.
InitDoms ==
    {[InitDom EXCEPT !.replaceDisabled = r, !.undoDisabled = u, !.downloadDisabled = d] :
        r \in BOOLEAN, u \in BOOLEAN, d \in BOOLEAN}

\* handleFileSelected when it is not running; before is the document state
\* at the call, remembered for the properties when the file is one whose
\* load fails.
IdleLoad == [pc |-> "idle", file |-> NoFile, xml |-> <<>>, before |-> Null]

IdleRep == [pc |-> "idle", pairs |-> <<>>, options |-> Options(TRUE, FALSE, FALSE),
            zip |-> NoZip, k |-> 0, xml |-> <<>>]

IdleUndo == [pc |-> "idle", zip |-> NoZip]

InitGhost ==
    [hist |-> <<"other">>, loadedText |-> <<>>, preText |-> <<>>, prePayload |-> Null,
     rows |-> <<>>, pairs |-> <<>>, options |-> Options(TRUE, FALSE, FALSE),
     postText |-> <<>>, blank |-> FALSE]

NoCall == [fn |-> "none"]

\* resetUndoState
resetUndoState(st) == [st EXCEPT !.undoText = Null, !.undoZip = NoZip, !.hasReplaced = FALSE]

\* setButtonStates
setButtonStates(d, canReplace, canUndo, canDownload) ==
    [d EXCEPT !.replaceDisabled = ~canReplace, !.undoDisabled = ~canUndo,
              !.downloadDisabled = ~canDownload]

\* handleInputChange on state st and page d: Val(the page after), or Thrown
\* when the preview throws before the buttons are set.
handleInputChange(st, d) ==
    IF st.currentFile = NoFile THEN Val(d)
    ELSE With(getPairs(d.rows), LAMBDA pairs :
         With(IF st.fileType = "txt"
              THEN renderTextPreview(st.currentText,
                                     IF Len(pairs) > 0 THEN pairs[1].find ELSE <<>>,
                                     d.options)
              ELSE renderHtmlPreview(st.previewHtml,
                                     IF Len(pairs) > 0 THEN pairs[1].find ELSE <<>>,
                                     d.options),
              LAMBDA matchCount :
                 IF IsThrown(matchCount) THEN Thrown
                 ELSE Val(setButtonStates(d, Len(pairs) > 0 /\ matchCount.v > 0,
                                          st.hasReplaced, st.hasReplaced))))

\* The document state by value: an archive reference is taken as whether
\* there is an object and what its word/document.xml entry holds.
ZipValue(heap, z) == [object |-> z # NoZip, xml |-> IF z = NoZip THEN Null ELSE heap[z].xml]

Snapshot(st, heap) ==
    [currentFile |-> st.currentFile, fileType |-> st.fileType,
     originalText |-> st.originalText, currentText |-> st.currentText,
     originalZip |-> ZipValue(heap, st.originalZip),
     currentZip |-> ZipValue(heap, st.currentZip),
     undoText |-> st.undoText, undoZip |-> ZipValue(heap, st.undoZip),
     hasReplaced |-> st.hasReplaced]

\* The files whose load ends in the catch block of handleFileSelected.
LoadFails(f) ==
    IF FileData[f].ext = ".docx"
    THEN ~FileData[f].archiveOk \/ IsNull(FileData[f].xml)
    ELSE ~FileData[f].readOk

\* The archive objects some variable or local still refers to.
Referenced(st, r, u) == {st.originalZip, st.currentZip, st.undoZip, r.zip, u.zip} \ {NoZip}

\* The identity new JSZip objects get.
NewZip(heap) == CHOOSE z \in ZipIds : heap[z].tag = "free" /\ \A y \in ZipIds : heap[y].tag = "free" => z <= y

\* The places that hold a reference to an archive object, in a fixed order.
Holders(st, r, u) == <<st.originalZip, st.currentZip, st.undoZip, r.zip, u.zip>>

\* Object identities carry no meaning beyond equality: an object is named by
\* the number of distinct objects up to its first holder.
Named(st, r, u, z) ==
    IF z = NoZip THEN NoZip
    ELSE LET refs == Holders(st, r, u)
             first == CHOOSE i \in 1..Len(refs) :
                         refs[i] = z /\ \A j \in 1..(i - 1) : refs[j] # z
         IN  Cardinality({refs[j] : j \in 1..first} \ {NoZip})

\* The state, the heap and the suspended handlers after a step: unreferenced
\* objects are dropped and the others named as above.
Commit(st, heap, r, u) ==
    /\ state' = [st EXCEPT !.originalZip = Named(st, r, u, @),
                           !.currentZip = Named(st, r, u, @),
                           !.undoZip = Named(st, r, u, @)]
    /\ rep' = [r EXCEPT !.zip = Named(st, r, u, @)]
    /\ undo' = [u EXCEPT !.zip = Named(st, r, u, @)]
    /\ zips' = [n \in ZipIds |->
                  IF \E z \in Referenced(st, r, u) : Named(st, r, u, z) = n
                  THEN heap[CHOOSE z \in Referenced(st, r, u) : Named(st, r, u, z) = n]
                  ELSE Free]

RECURSIVE Rounds(_)
\* n replace-alls that each ran from start to success with nothing between.
Rounds(n) == IF n = 0 THEN <<>> ELSE Rounds(n - 1) \o <<"rep-start", "rep-ok">>

IsPrefix(a, b) == Len(a) <= Len(b) /\ SubSeq(b, 1, Len(a)) = a

\* The histories the properties speak of, and their prefixes: after the
\* load either one replace-all that failed, or up to MaxRounds successful
\* replace-alls and then one undo.
Tracked(h) ==
    \/ IsPrefix(h, <<"rep-start", "rep-fail">>)
    \/ \E n \in 0..MaxRounds :
          IsPrefix(h, Rounds(n) \o <<"undo-start", "undo-done">>)

\* The history with one more event; a history no property speaks of is
\* remembered only as such, and its values are dropped.
Note(g, e) ==
    IF Tracked(Append(g.hist, e)) THEN [g EXCEPT !.hist = Append(g.hist, e)]
    ELSE InitGhost

\* The handlers suspended at an await.
Awaiting == Cardinality({h \in {load, rep, undo} : h.pc # "idle"})

\* The user acts while fewer than MaxAwaiting handlers are suspended.
UserActs == Awaiting < MaxAwaiting

\* The word/document.xml entry of an archive object (Null: none, or no object).
Payload(heap, z) == IF z = NoZip THEN Null ELSE heap[z].xml

-----------------------------------------------------------------------------
(* The user edits the replacement rows or toggles an option.               *)

\* An input or change event: the page holds the new rows and options, then
\* handleInputChange runs; if it throws, the buttons stay as they were.
InputChangeWhen(can, rows, options) ==
    /\ can
    /\ ~dom.sectionHidden
    /\ <<rows, options>> # <<dom.rows, dom.options>>
    /\ \E d \in {[dom EXCEPT !.rows = rows, !.options = options]} :
       \E r \in {handleInputChange(state, d)} :
          dom' = IF IsThrown(r) THEN d ELSE r.v
    /\ UNCHANGED <<state, zips, load, rep, undo, toast, ghost, inp, out>>

InputChange(rows, options) == InputChangeWhen(UserActs, rows, options)

-----------------------------------------------------------------------------
(* handleFileSelected, loadTextFile, loadDocxFile, handleFileRemove.       *)

\* The catch block of handleFileSelected, with the state as the try left it.
LoadFail(st) ==
    /\ Commit(st, zips, rep, undo)
    /\ toast' = "load-error"
    /\ ghost' = Note(ghost, "load-fail")
    /\ load' = IdleLoad
    /\ UNCHANGED dom

\* The end of the try block of handleFileSelected: resetUndoState,
\* handleInputChange, the success toast.
LoadFinish(st0) ==
    \E st \in {resetUndoState(st0)} :
    \E d \in {handleInputChange(st, dom)} :
        /\ Commit(st, zips, rep, undo)
        /\ dom' = IF IsThrown(d) THEN dom ELSE d.v
        /\ toast' = IF IsThrown(d) THEN "load-error" ELSE "load-success"
        /\ ghost' = IF IsThrown(d) THEN Note(ghost, "load-fail")
                    ELSE [InitGhost EXCEPT !.hist = <<>>, !.loadedText = st.currentText]
        /\ load' = IdleLoad

\* handleFileSelected up to its first await.
FileSelectedWhen(can, f) ==
    /\ can
    /\ load.pc = "idle"
    /\ state' = [state EXCEPT !.currentFile = f,
                              !.fileType = IF FileData[f].ext = ".docx" THEN "docx" ELSE "txt"]
    /\ dom' = [dom EXCEPT !.fileInfoHidden = FALSE, !.sectionHidden = FALSE]
    /\ load' = [pc |-> IF FileData[f].ext = ".docx" THEN "zip1" ELSE "txt",
                file |-> f, xml |-> <<>>,
                before |-> IF LoadFails(f) THEN Val(Snapshot(state, zips)) ELSE Null]
    /\ ghost' = Note(ghost, "load-start")
    /\ UNCHANGED <<zips, rep, undo, toast, inp, out>>

FileSelected(f) == FileSelectedWhen(UserActs, f)

\* loadTextFile after await loadTxt(file).
LoadTxt ==
    /\ load.pc = "txt"
    /\ IF FileData[load.file].readOk
       THEN LoadFinish([state EXCEPT !.originalText = FileData[load.file].text,
                                     !.currentText = FileData[load.file].text])
       ELSE LoadFail(state)
    /\ UNCHANGED <<inp, out>>

\* loadDocxFile after the first await loadDocx(file).
LoadZip1 ==
    /\ load.pc = "zip1"
    /\ IF FileData[load.file].archiveOk
       THEN /\ Commit([state EXCEPT !.originalZip = NewZip(zips)],
                      [zips EXCEPT ![NewZip(zips)] = Archive(FileData[load.file].xml,
                                                             FileData[load.file].notes)],
                      rep, undo)
            /\ load' = [load EXCEPT !.pc = "zip2"]
            /\ UNCHANGED <<dom, toast, ghost>>
       ELSE LoadFail(state)
    /\ UNCHANGED <<inp, out>>

\* loadDocxFile after await file.arrayBuffer() and the second await
\* loadDocx(file) (nothing reads or writes the state between the two).
LoadZip2 ==
    /\ load.pc = "zip2"
    /\ Commit([state EXCEPT !.currentZip = NewZip(zips)],
              [zips EXCEPT ![NewZip(zips)] = Archive(FileData[load.file].xml,
                                                     FileData[load.file].notes)],
              rep, undo)
    /\ load' = [load EXCEPT !.pc = "preview"]
    /\ UNCHANGED <<dom, toast, ghost, inp, out>>

\* loadDocxFile after await generateHtmlPreview(arrayBuffer), up to the
\* await in getDocumentXml(state.originalZip).
LoadPreview ==
    /\ load.pc = "preview"
    /\ \E h \in {generateHtmlPreview(Archive(FileData[load.file].xml,
                                              FileData[load.file].notes))} :
          IF IsThrown(h) THEN LoadFail(state)
          ELSE \E st \in {[state EXCEPT !.previewHtml = h.v]} :
               \E x \in {Payload(zips, st.originalZip)} :
                  IF IsNull(x) THEN LoadFail(st)
                  ELSE /\ Commit(st, zips, rep, undo)
                       /\ load' = [load EXCEPT !.pc = "text", !.xml = x.v]
                       /\ UNCHANGED <<dom, toast, ghost>>
    /\ UNCHANGED <<inp, out>>

\* loadDocxFile after await getDocumentXml, and the rest of the try block.
LoadText ==
    /\ load.pc = "text"
    /\ \E t \in {extractTextFromXml(load.xml)} :
          LoadFinish([state EXCEPT !.originalText = t, !.currentText = t])
    /\ UNCHANGED <<inp, out>>

\* handleFileRemove
FileRemoveWhen(can) ==
    /\ can
    /\ ~dom.fileInfoHidden
    /\ Commit(resetUndoState([state EXCEPT !.currentFile = NoFile, !.fileType = "null",
                                           !.originalText = <<>>, !.currentText = <<>>,
                                           !.originalZip = NoZip, !.currentZip = NoZip,
                                           !.previewHtml = <<>>]),
              zips, rep, undo)
    /\ dom' = setButtonStates([dom EXCEPT !.rows = BlankRows, !.sectionHidden = TRUE,
                                          !.fileInfoHidden = TRUE],
                              FALSE, FALSE, FALSE)
    /\ ghost' = Note(ghost, "remove")
    /\ UNCHANGED <<load, toast, inp, out>>

FileRemove == FileRemoveWhen(UserActs)

-----------------------------------------------------------------------------
(* handleReplaceAll, applyTextReplacements, applyDocxReplacements.         *)

\* applyTextReplacements with every pair applied to state.currentText
\* instead of the local text: the last pair's result is what is stored.
applyTextReplacementsFromCurrent(text, pairs, options) ==
    IF pairs = <<>> THEN Val(text)
    ELSE replaceAll(text, pairs[Len(pairs)].find, pairs[Len(pairs)].replace, options)

RECURSIVE applyTextReplacements(_, _, _)
\* The loop of applyTextReplacements over a local text: Val(text) or Thrown.
applyTextReplacements(text, pairs, options) ==
    IF pairs = <<>> THEN Val(text)
    ELSE With(replaceAll(text, Head(pairs).find, Head(pairs).replace, options), LAMBDA r :
             IF IsThrown(r) THEN Thrown
             ELSE applyTextReplacements(r.v, Tail(pairs), options))

\* The catch block of handleReplaceAll.
ReplaceFail(st, heap, g) ==
    /\ Commit(st, heap, IdleRep, undo)
    /\ toast' = "replace-error"
    /\ ghost' = Note(g, "rep-fail")
    /\ UNCHANGED dom

\* The end of the try block of handleReplaceAll: hasReplaced, then
\* handleInputChange (a throw lands in the catch block), then the toast.
ReplaceFinish(st0, heap, g) ==
    \E st \in {[st0 EXCEPT !.hasReplaced = TRUE]} :
    \E d \in {handleInputChange(st, dom)} :
        /\ Commit(st, heap, IdleRep, undo)
        /\ dom' = IF IsThrown(d) THEN dom ELSE d.v
        /\ toast' = IF IsThrown(d) THEN "replace-error" ELSE "replace-success"
        /\ ghost' = Note([g EXCEPT !.postText = st.currentText],
                         IF IsThrown(d) THEN "rep-fail" ELSE "rep-ok")

\* "Save undo state" of handleReplaceAll: the text, and the reference to
\* the archive object (no copy is made).
SaveUndoState(st) ==
    [st EXCEPT !.undoText = Val(st.currentText), !.undoZip = st.currentZip]

\* A click on Replace All: handleReplaceAll up to its first real await.  For
\* a .txt no await suspends it and it runs to its end.
ReplaceAllClickWhen(can) ==
    /\ can
    /\ ~dom.sectionHidden
    /\ ~dom.replaceDisabled
    /\ rep.pc = "idle"
    /\ \E pairs \in {getPairs(dom.rows)} :
       \E st \in {SaveUndoState(state)} :
       \E g \in {Note([ghost EXCEPT !.preText = state.currentText,
                                    !.prePayload = Payload(zips, state.currentZip),
                                    !.rows = dom.rows, !.pairs = pairs,
                                    !.options = dom.options],
                      "rep-start")} :
          IF Len(pairs) = 0
          THEN /\ ghost' = [ghost EXCEPT !.blank = TRUE]
               /\ UNCHANGED <<state, zips, dom, rep, undo, toast>>
          ELSE IF state.fileType = "txt"
          THEN \E t \in {applyTextReplacements(state.currentText, pairs, dom.options)} :
                  IF IsThrown(t) THEN ReplaceFail(st, zips, g)
                  ELSE ReplaceFinish([st EXCEPT !.currentText = t.v], zips, g)
          ELSE \E x \in {Payload(zips, st.currentZip)} :
                  IF IsNull(x) THEN ReplaceFail(st, zips, g)
                  ELSE /\ Commit(st, zips,
                                 [pc |-> "pair", pairs |-> pairs, options |-> dom.options,
                                  zip |-> st.currentZip, k |-> 1, xml |-> x.v],
                                 undo)
                       /\ ghost' = g
                       /\ UNCHANGED <<dom, toast>>
    /\ UNCHANGED <<load, inp, out>>

ReplaceAllClick == ReplaceAllClickWhen(UserActs)

\* replaceInDocx for pair k after await xmlFile.async('string'): the xml read
\* is replaced and written back into the same archive object; then the next
\* pair's getDocumentXml, or state.currentZip = zip and exportDocx.
ReplacePair ==
    /\ rep.pc = "pair"
    /\ \E m \in {replaceInXml(rep.xml, rep.pairs[rep.k].find, rep.pairs[rep.k].replace,
                               rep.options)} :
          IF IsThrown(m) THEN ReplaceFail(state, zips, ghost)
          ELSE \E heap \in {[zips EXCEPT ![rep.zip].xml = Val(m.v)]} :
                  IF rep.k < Len(rep.pairs)
                  THEN /\ Commit(state, heap, [rep EXCEPT !.k = rep.k + 1, !.xml = m.v], undo)
                       /\ UNCHANGED <<dom, toast, ghost>>
                  ELSE /\ Commit([state EXCEPT !.currentZip = rep.zip], heap,
                                 [rep EXCEPT !.pc = "preview"], undo)
                       /\ UNCHANGED <<dom, toast, ghost>>
    /\ UNCHANGED <<load, inp, out>>

\* applyDocxReplacements after the awaits of exportDocx, blob.arrayBuffer
\* and generateHtmlPreview, up to the await in getDocumentXml(zip).
ReplacePreview ==
    /\ rep.pc = "preview"
    /\ \E h \in {generateHtmlPreview(zips[rep.zip])} :
          IF IsThrown(h) THEN ReplaceFail(state, zips, ghost)
          ELSE /\ Commit([state EXCEPT !.previewHtml = h.v], zips,
                         [rep EXCEPT !.pc = "text", !.xml = zips[rep.zip].xml.v], undo)
               /\ UNCHANGED <<dom, toast, ghost>>
    /\ UNCHANGED <<load, inp, out>>

\* applyDocxReplacements after await getDocumentXml(zip), and the rest of
\* the try block of handleReplaceAll.
ReplaceText ==
    /\ rep.pc = "text"
    /\ ReplaceFinish([state EXCEPT !.currentText = extractTextFromXml(rep.xml)], zips, ghost)
    /\ UNCHANGED <<load, inp, out>>

-----------------------------------------------------------------------------
(* handleUndo.                                                             *)

\* The end of handleUndo: resetUndoState, handleInputChange, the toast.  It
\* has no catch block: a throw ends the handler where it is.
UndoFinish(st0, g) ==
    \E st \in {resetUndoState(st0)} :
    \E d \in {handleInputChange(st, dom)} :
        /\ Commit(st, zips, rep, IdleUndo)
        /\ dom' = IF IsThrown(d) THEN dom ELSE d.v
        /\ toast' = IF IsThrown(d) THEN toast ELSE "undo-success"
        /\ ghost' = Note(g, IF IsThrown(d) THEN "undo-throw" ELSE "undo-done")

\* a || b on strings: the empty string is falsy, as null is.
OrText(a, b) == IF IsNull(a) \/ a.v = <<>> THEN b ELSE a.v

\* a || b on object references.
OrZip(a, b) == IF a = NoZip THEN b ELSE a

\* handleUndo with the assignment to state.currentText left out.
RestoreZipOnly(st) == [st EXCEPT !.currentZip = OrZip(st.undoZip, st.originalZip)]

\* The two assignments of handleUndo that bring back the snapshot.
RestoreUndoState(st) ==
    [st EXCEPT !.currentText = OrText(st.undoText, st.originalText),
               !.currentZip = OrZip(st.undoZip, st.originalZip)]

\* A click on Undo: handleUndo up to its first real await (a .txt has none).
UndoClickWhen(can) ==
    /\ can
    /\ ~dom.sectionHidden
    /\ ~dom.undoDisabled
    /\ undo.pc = "idle"
    /\ \E st \in {RestoreUndoState(state)} :
          IF ~state.hasReplaced THEN UNCHANGED appVars
          ELSE IF st.fileType = "docx" /\ st.currentZip # NoZip
          THEN /\ Commit(st, zips, rep, [pc |-> "preview", zip |-> st.currentZip])
               /\ ghost' = Note(ghost, "undo-start")
               /\ UNCHANGED <<dom, toast>>
          ELSE UndoFinish(st, Note(ghost, "undo-start"))
    /\ UNCHANGED <<load, inp, out>>

UndoClick == UndoClickWhen(UserActs)

\* handleUndo after the awaits of exportDocx, blob.arrayBuffer and
\* generateHtmlPreview.
UndoPreview ==
    /\ undo.pc = "preview"
    /\ \E h \in {generateHtmlPreview(zips[undo.zip])} :
          IF IsThrown(h)
          THEN /\ Commit(state, zips, rep, IdleUndo)
               /\ ghost' = Note(ghost, "undo-throw")
               /\ UNCHANGED <<dom, toast>>
          ELSE UndoFinish([state EXCEPT !.previewHtml = h.v], ghost)
    /\ UNCHANGED <<load, inp, out>>

-----------------------------------------------------------------------------
(* The application.                                                        *)

Init ==
    /\ state = InitState
    /\ zips = [z \in ZipIds |-> Free]
    /\ dom \in InitDoms
    /\ load = IdleLoad
    /\ rep = IdleRep
    /\ undo = IdleUndo
    /\ toast = "none"
    /\ ghost = InitGhost
    /\ inp = NoCall
    /\ out = NoCall

Next ==
    \/ \E i \in PageInputs : InputChange(i[1], i[2])
    \/ \E f \in Files : FileSelected(f)
    \/ LoadTxt
    \/ LoadZip1
    \/ LoadZip2
    \/ LoadPreview
    \/ LoadText
    \/ FileRemove
    \/ ReplaceAllClick
    \/ ReplacePair
    \/ ReplacePreview
    \/ ReplaceText
    \/ UndoClick
    \/ UndoPreview

Spec == Init /\ [][Next]_vars

-----------------------------------------------------------------------------
(* The application with the user acting while handlers are suspended: no   *)
(* handler of main.js looks at whether another one is in flight, so an     *)
(* event is handled at any await of the others.                            *)

\* The handlers suspended at an await when the user acts again, here.
MaxRacing == 2

RaceActs == Awaiting < MaxRacing

\* The files selected and the rows typed in these sessions.
RaceFiles == {1, 2}

RaceInputs == {<<<<Pair(<<"a">>, <<"b">>)>>, Options(TRUE, FALSE, FALSE)>>}

RaceInputChange(rows, options) == InputChangeWhen(RaceActs, rows, options)

RaceFileSelected(f) == FileSelectedWhen(RaceActs, f)

RaceFileRemove == FileRemoveWhen(RaceActs)

RaceReplaceAllClick == ReplaceAllClickWhen(RaceActs)

RaceUndoClick == UndoClickWhen(RaceActs)

RaceInit == Init /\ dom = InitDom

RaceNext ==
    \/ \E i \in RaceInputs : RaceInputChange(i[1], i[2])
    \/ \E f \in RaceFiles : RaceFileSelected(f)
    \/ LoadTxt
    \/ LoadZip1
    \/ LoadZip2
    \/ LoadPreview
    \/ LoadText
    \/ RaceFileRemove
    \/ RaceReplaceAllClick
    \/ ReplacePair
    \/ ReplacePreview
    \/ ReplaceText
    \/ RaceUndoClick
    \/ UndoPreview

RaceSpec == RaceInit /\ [][RaceNext]_vars

-----------------------------------------------------------------------------
(* The functions of replacer.js called on their own.                       *)

PureTexts ==
    { <<>>, <<"a">>, <<"a", "a">>, <<"a", "b">>, <<"A", "b">>,
      <<"f", "o", "o", " ", "b", "a", "r">> }

PurePatterns ==
    { <<>>, <<"a">>, <<"a", "b">>, <<"f", "o", "o">>, <<"a", "*">>, <<"(">>, <<".">> }

PureReplacements ==
    { <<>>, <<"b">>, <<"b", "a", "z">>, <<"$", "&">>, <<"$", "$">>, <<"$", "1">>, <<"<">> }

PureOptions == {Options(cs, ww, re) : cs \in BOOLEAN, ww \in BOOLEAN, re \in BOOLEAN}

\* Paragraph blocks: the fragments "fo" and "o bar"; one fragment "a"; the
\* fragments "a" and "b"; one empty fragment; no text fragment.
PureBlocks ==
    { ParTag(RunTag(TextTag(<<>>, <<"f", "o">>))
             \o RunTag(TextTag(PreserveAttr, <<"o", " ", "b", "a", "r">>))),
      ParTag(RunTag(TextTag(<<>>, <<"a">>))),
      ParTag(RunTag(TextTag(<<>>, <<"a">>)) \o RunTag(TextTag(<<>>, <<"b">>))),
      ParTag(RunTag(TextTag(<<>>, <<>>))),
      ParTag(<<"<w:pPr", ">">>) }

\* Payloads: "f" | "oo"; "a" | "a"; "fo","o bar" | "a"; "a*" between two
\* paragraphs "a","a" and "b"; no paragraph.
PureDocs ==
    { ParTag(RunTag(TextTag(<<>>, <<"f">>))) \o ParTag(RunTag(TextTag(<<>>, <<"o", "o">>))),
      ParTag(RunTag(TextTag(<<>>, <<"a">>))) \o ParTag(RunTag(TextTag(<<>>, <<"a">>))),
      ParTag(RunTag(TextTag(<<>>, <<"f", "o">>))
             \o RunTag(TextTag(PreserveAttr, <<"o", " ", "b", "a", "r">>)))
        \o ParTag(RunTag(TextTag(<<>>, <<"a">>))),
      ParTag(RunTag(TextTag(<<>>, <<"a">>)) \o RunTag(TextTag(<<>>, <<"a">>)))
        \o <<"a", "*">> \o ParTag(RunTag(TextTag(<<>>, <<"b">>))),
      RunTag(TextTag(<<>>, <<"a">>)) }

\* Texts to scan: "", "bb", "aaa", "a.a", "aA b", "concatenate cat".
ScanTexts ==
    { <<>>, <<"b", "b">>, <<"a", "a", "a">>, <<"a", ".", "a">>, <<"a", "A", " ", "b">>,
      <<"c", "o", "n", "c", "a", "t", "e", "n", "a", "t", "e", " ", "c", "a", "t">> }

\* Patterns to scan for: "", "a", "aa", "b", "cat", ".", "$", "a*", "(",
\* "co|cat".
ScanPatterns ==
    { <<>>, <<"a">>, <<"a", "a">>, <<"b">>, <<"c", "a", "t">>, <<".">>, <<"$">>,
      <<"a", "*">>, <<"(">>, <<"c", "o", "|", "c", "a", "t">> }

\* The calls made: replaceAll, replaceInXml and findMatches with any pattern,
\* and replaceInParagraph with a compiled expression, as replaceInXml calls it.
PureCalls ==
    { [fn |-> "findMatches", text |-> t, pattern |-> p, options |-> o] :
        t \in ScanTexts, p \in ScanPatterns, o \in PureOptions }
    \cup
    { [fn |-> "replaceAll", text |-> t, pattern |-> p, replacement |-> r, options |-> o] :
        t \in PureTexts, p \in PurePatterns, r \in PureReplacements, o \in PureOptions }
    \cup
    { c \in { [fn |-> "replaceInParagraph", xml |-> b, pattern |-> p, replacement |-> r,
               options |-> o] :
                b \in PureBlocks, p \in PurePatterns, r \in PureReplacements,
                o \in PureOptions } :
        buildRegex(c.pattern, c.options).tag = "regex" }
    \cup
    { [fn |-> "replaceInXml", xml |-> d, pattern |-> p, replacement |-> r, options |-> o] :
        d \in PureDocs, p \in PurePatterns, r \in PureReplacements, o \in PureOptions }

CallReplaceAll ==
    /\ inp.fn = "replaceAll"
    /\ out = NoCall
    /\ out' = [fn |-> inp.fn,
               result |-> replaceAll(inp.text, inp.pattern, inp.replacement, inp.options)]
    /\ UNCHANGED <<inp, state, zips, dom, load, rep, undo, toast, ghost>>

CallReplaceInParagraph ==
    /\ inp.fn = "replaceInParagraph"
    /\ out = NoCall
    /\ out' = [fn |-> inp.fn,
               result |-> replaceInParagraph(inp.xml, buildRegex(inp.pattern, inp.options),
                                             inp.replacement)]
    /\ UNCHANGED <<inp, state, zips, dom, load, rep, undo, toast, ghost>>

CallReplaceInXml ==
    /\ inp.fn = "replaceInXml"
    /\ out = NoCall
    /\ out' = [fn |-> inp.fn,
               result |-> replaceInXml(inp.xml, inp.pattern, inp.replacement, inp.options)]
    /\ UNCHANGED <<inp, state, zips, dom, load, rep, undo, toast, ghost>>

\* findMatches up to its loop: the pattern is compiled; the call returns
\* at once for the null of an empty pattern and ends when new RegExp throws.
FindBegin ==
    /\ inp.fn = "findMatches"
    /\ out = NoCall
    /\ \E regex \in {buildRegex(inp.pattern, inp.options)} :
          out' = IF IsThrown(regex)
                 THEN [fn |-> inp.fn, pc |-> "done", regex |-> regex, positions |-> <<>>,
                       result |-> Thrown]
                 ELSE IF IsNull(regex)
                 THEN [fn |-> inp.fn, pc |-> "done", regex |-> regex, positions |-> <<>>,
                       result |-> Val([count |-> 0, positions |-> <<>>])]
                 ELSE [fn |-> inp.fn, pc |-> "loop", regex |-> regex, positions |-> <<>>,
                       result |-> Null]
    /\ UNCHANGED <<inp, state, zips, dom, load, rep, undo, toast, ghost>>

\* One turn of the loop of findMatches; when exec returns null the call
\* returns { count, positions }.
FindIterate ==
    /\ inp.fn = "findMatches"
    /\ out # NoCall
    /\ out.pc = "loop"
    /\ \E s \in {FindStep(out.regex, inp.text, out.positions)} :
          out' = [fn |-> inp.fn, pc |-> IF s.done THEN "done" ELSE "loop",
                  regex |-> s.rx, positions |-> s.positions,
                  result |-> IF s.done
                             THEN Val([count |-> Len(s.positions),
                                       positions |-> s.positions])
                             ELSE Null]
    /\ UNCHANGED <<inp, state, zips, dom, load, rep, undo, toast, ghost>>

PureInit ==
    /\ state = InitState
    /\ zips = [z \in ZipIds |-> Free]
    /\ dom = InitDom
    /\ load = IdleLoad
    /\ rep = IdleRep
    /\ undo = IdleUndo
    /\ toast = "none"
    /\ ghost = InitGhost
    /\ inp \in PureCalls
    /\ out = NoCall

PureNext ==
    \/ CallReplaceAll
    \/ CallReplaceInParagraph
    \/ CallReplaceInXml
    \/ FindBegin
    \/ FindIterate

PureSpec == PureInit /\ [][PureNext]_vars

\* The calls of findMatches alone.
ScanInit == PureInit /\ inp.fn = "findMatches"

ScanNext ==
    \/ FindBegin
    \/ FindIterate

\* A call that has begun runs on: findMatches is synchronous, nothing else
\* is scheduled between two turns of its loop.
ScanSpec == ScanInit /\ [][ScanNext]_vars /\ WF_vars(ScanNext)

-----------------------------------------------------------------------------
(* Properties of the handlers (under Spec).                                *)

\* The histories that end with n successful replace-alls in a row.
Replaced == {Rounds(n) : n \in 1..MaxRounds}

\* The histories that end with an undo after those.
Undone == {h \o <<"undo-start", "undo-done">> : h \in Replaced}

\* C1: after a successful load, one successful replace-all and then undo,
\* state.currentText is the text the document had right after the load, for
\* a .txt and for a .docx.
C1_UndoRestoresLoadedText ==
    ghost.hist = <<"rep-start", "rep-ok", "undo-start", "undo-done">>
        => state.currentText = ghost.loadedText

\* A .docx whose replace-all changed the text has been undone.
C1_Witness ==
    /\ ghost.hist = <<"rep-start", "rep-ok", "undo-start", "undo-done">>
    /\ state.fileType = "docx"
    /\ ghost.postText # ghost.loadedText
    /\ state.currentText = ghost.loadedText

\* C2: after a successful replace-all on a .docx that changed the payload,
\* the payload of undoZip is still the payload from before that replace-all;
\* and after the undo the current payload equals it again.
C2_SnapshotKeepsPayload ==
    /\ (/\ ghost.hist \in Replaced
        /\ state.fileType = "docx"
        /\ Payload(zips, state.currentZip) # ghost.prePayload)
          => Payload(zips, state.undoZip) = ghost.prePayload
    /\ (ghost.hist \in Undone /\ state.fileType = "docx")
          => Payload(zips, state.currentZip) = ghost.prePayload

\* C3: after one or more successful replace-alls and then undo, the current
\* text is the text from before the most recent replace-all, and no snapshot
\* is left for a further undo (hasReplaced is false, so handleUndo returns
\* at once).
C3_OneUndoStep ==
    ghost.hist \in Undone
        => /\ state.currentText = ghost.preText
           /\ ~state.hasReplaced
           /\ IsNull(state.undoText)

\* C4: after a replace-all that failed, currentText and the current payload
\* are what they were before it, for a .txt and for a .docx.
C4_FailedReplaceChangesNothing ==
    ghost.hist = <<"rep-start", "rep-fail">>
        => /\ state.currentText = ghost.preText
           /\ Payload(zips, state.currentZip) = ghost.prePayload

RECURSIVE FoldReplaceAll(_, _, _)
\* The left-to-right fold of replaceAll over a pair list.
FoldReplaceAll(text, pairs, options) ==
    IF pairs = <<>> THEN text
    ELSE FoldReplaceAll(replaceAll(text, pairs[1].find, pairs[1].replace, options).v,
                        Tail(pairs), options)

RECURSIVE FoldReplaceInXml(_, _, _)
\* The left-to-right fold of replaceInXml over a pair list.
FoldReplaceInXml(xml, pairs, options) ==
    IF pairs = <<>> THEN xml
    ELSE FoldReplaceInXml(replaceInXml(xml, pairs[1].find, pairs[1].replace, options).v,
                          Tail(pairs), options)

\* C5 as stated: after a successful replace-all the text is the fold of
\* replaceAll over the pair list, starting from the text before it.
C5_TextIsFoldOfReplaceAll ==
    ghost.hist \in Replaced
        => state.currentText = FoldReplaceAll(ghost.preText, ghost.pairs, ghost.options)

\* C5 amended: after a successful replace-all on a .txt the text is the fold
\* of replaceAll over the pair list; on a .docx the payload is the fold of
\* replaceInXml over the pair list, starting from the payload before it, and
\* the text is the text extracted from that payload.
C5_PairsFoldInOrder ==
    ghost.hist \in Replaced
        => IF state.fileType = "txt"
           THEN state.currentText
                   = FoldReplaceAll(ghost.preText, ghost.pairs, ghost.options)
           ELSE /\ Payload(zips, state.currentZip)
                      = Val(FoldReplaceInXml(ghost.prePayload.v, ghost.pairs, ghost.options))
                /\ state.currentText
                      = extractTextFromXml(FoldReplaceInXml(ghost.prePayload.v, ghost.pairs,
                                                            ghost.options))

\* The pairs a -> b, b -> c have turned the text "a" of a .txt into "c".
C5_Witness ==
    /\ ghost.hist = <<"rep-start", "rep-ok">>
    /\ state.fileType = "txt"
    /\ ghost.preText = <<"a">>
    /\ ghost.pairs = <<Pair(<<"a">>, <<"b">>), Pair(<<"b">>, <<"c">>)>>
    /\ state.currentText = <<"c">>

-----------------------------------------------------------------------------
(* Properties of the functions (under PureSpec).                           *)

Returned(fn) == out # NoCall /\ inp.fn = fn

RECURSIVE Verbatim(_, _, _, _, _)
\* The text with each of the spans positions[k..] replaced by exactly the
\* characters of replacement; pos is where the copy of the text resumes.
Verbatim(text, positions, k, pos, replacement) ==
    IF k > Len(positions) THEN SliceFrom(text, pos)
    ELSE Slice(text, pos, positions[k].start) \o replacement
         \o Verbatim(text, positions, k + 1, positions[k].end, replacement)

\* C6: in literal mode replaceAll replaces each match of the pattern by
\* exactly the characters of the replacement string.
C6_LiteralReplacementVerbatim ==
    (Returned("replaceAll") /\ ~inp.options.isRegex)
        => out.result
             = Val(Verbatim(inp.text,
                            findMatches(inp.text, inp.pattern, inp.options).v.positions,
                            1, 0, inp.replacement))

\* The flat replacement applied to the text of the block a call was given.
FlatOfBlock == replaceAll(extractTextFromXml(inp.xml), inp.pattern, inp.replacement,
                          inp.options).v

\* C7: the fragment texts of the block replaceInParagraph returns, joined,
\* are the flat replacement of the joined fragment texts of its input.
C7_ConcatenationInvariant ==
    Returned("replaceInParagraph")
        => extractTextFromXml(out.result.xml) = FlatOfBlock

\* The call changes the text of a block that has text fragments.
ChangesBlock ==
    /\ Returned("replaceInParagraph")
    /\ Segments(inp.xml, 0) # <<>>
    /\ FlatOfBlock # extractTextFromXml(inp.xml)

RECURSIVE Rebuilt(_, _, _, _, _)
\* The block with its text elements written anew from the first on: the
\* first holds newText (with xml:space="preserve" when that is not empty),
\* every other one is empty with its own attributes.
Rebuilt(xml, segs, k, pos, newText) ==
    IF k > Len(segs) THEN SliceFrom(xml, pos)
    ELSE Slice(xml, pos, segs[k].start)
         \o TextTag(IF k = 1 /\ newText # <<>> THEN PreserveAttr ELSE segs[k].attrs,
                    IF k = 1 THEN newText ELSE <<>>)
         \o Rebuilt(xml, segs, k + 1, segs[k].end, newText)

\* C8: when the replacement changes the text of a block, the block returned
\* has the whole new text in its first text element and every other text
\* element empty, the rest of the block as it was; read back, the fragments
\* are the new text followed by empty strings (for a new text the element
\* pattern can read back, one without "<").
C8_NewTextInFirstFragment ==
    ChangesBlock
        => /\ out.result.xml = Rebuilt(inp.xml, Segments(inp.xml, 0), 1, 0, FlatOfBlock)
           /\ (\A i \in 1..Len(FlatOfBlock) : FlatOfBlock[i] \notin LtChars)
                 => SegmentTexts(Segments(out.result.xml, 0))
                       = [i \in 1..Len(Segments(inp.xml, 0)) |->
                             IF i = 1 THEN FlatOfBlock ELSE <<>>]

\* The fragments "fo", "o bar" with foo -> baz have become "baz bar", "".
C8_Witness ==
    /\ ChangesBlock
    /\ SegmentTexts(Segments(inp.xml, 0)) = << <<"f", "o">>, <<"o", " ", "b", "a", "r">> >>
    /\ inp.pattern = <<"f", "o", "o">>
    /\ inp.replacement = <<"b", "a", "z">>
    /\ SegmentTexts(Segments(out.result.xml, 0))
          = << <<"b", "a", "z", " ", "b", "a", "r">>, <<>> >>

\* C9: replaceInParagraph returns its input string when the block has no
\* text fragment or the replacement leaves the text of the block as it is.
C9_UnchangedBlockIdentical ==
    (/\ Returned("replaceInParagraph")
     /\ (Segments(inp.xml, 0) = <<>> \/ FlatOfBlock = extractTextFromXml(inp.xml)))
        => out.result.xml = inp.xml

\* A block of two fragments, one with attributes, has matches that are
\* replaced by themselves, and is returned as it was.
C9_Witness ==
    /\ Returned("replaceInParagraph")
    /\ Len(Segments(inp.xml, 0)) = 2
    /\ Segments(inp.xml, 0)[2].attrs = PreserveAttr
    /\ findMatches(extractTextFromXml(inp.xml), inp.pattern, inp.options).v.count > 0
    /\ out.result.xml = inp.xml

RECURSIVE Isolated(_, _, _, _, _, _, _)
\* The payload with each paragraph replaced on its own, by an expression
\* compiled anew for it.
Isolated(xml, spans, k, pos, pattern, replacement, options) ==
    IF k > Len(spans) THEN SliceFrom(xml, pos)
    ELSE Slice(xml, pos, spans[k][1])
         \o replaceInParagraph(Slice(xml, spans[k][1], spans[k][2]),
                               buildRegex(pattern, options), replacement).xml
         \o Isolated(xml, spans, k + 1, spans[k][2], pattern, replacement, options)

\* No paragraph of the payload has a match in its own text.
NoMatchInAnyParagraph ==
    \A k \in 1..Len(ParagraphSpans(inp.xml, 0)) :
        findMatches(extractTextFromXml(Slice(inp.xml, ParagraphSpans(inp.xml, 0)[k][1],
                                             ParagraphSpans(inp.xml, 0)[k][2])),
                    inp.pattern, inp.options).v.count = 0

\* C10: what replaceInXml returns is the payload with each paragraph
\* replaced on its own (nothing is carried from one paragraph to the next
\* through the one compiled expression), and a payload none of whose
\* paragraphs has a match in its own text is returned as it was, also when
\* the pattern occurs across two paragraphs.
C10_ParagraphsInIsolation ==
    (Returned("replaceInXml") /\ buildRegex(inp.pattern, inp.options).tag = "regex")
        => /\ out.result
                = Val(Isolated(inp.xml, ParagraphSpans(inp.xml, 0), 1, 0, inp.pattern,
                               inp.replacement, inp.options))
           /\ NoMatchInAnyParagraph => out.result = Val(inp.xml)

\* "foo" occurs in the text of the payload "f" | "oo", across its two
\* paragraphs only, and the payload is returned as it was.
C10_Witness ==
    /\ Returned("replaceInXml")
    /\ inp.pattern = <<"f", "o", "o">>
    /\ Len(ParagraphSpans(inp.xml, 0)) = 2
    /\ findMatches(extractTextFromXml(inp.xml), inp.pattern, inp.options).v.count = 1
    /\ NoMatchInAnyParagraph
    /\ out.result = Val(inp.xml)

-----------------------------------------------------------------------------
(* Properties of the scanner (under ScanSpec and PureSpec).                *)

\* findMatches has returned or thrown.
Scanned == inp.fn = "findMatches" /\ out # NoCall /\ out.pc = "done"

\* The lower-case letter of an upper-case letter of the alphabet.
FoldCase(c) ==
    CASE c = "A" -> "a"
      [] c = "B" -> "b"
      [] OTHER -> c

\* The pattern P stands in the text T right after its first p characters,
\* compared exactly (cs) or ignoring case.
OccursAt(T, P, p, cs) ==
    /\ p + Len(P) <= Len(T)
    /\ \A i \in 1..Len(P) :
          IF cs THEN T[p + i] = P[i] ELSE FoldCase(T[p + i]) = FoldCase(P[i])

RECURSIVE Occurrences(_, _, _, _)
\* The number of non-overlapping occurrences of P in T from position p on,
\* taken left to right.
Occurrences(T, P, p, cs) ==
    IF p + Len(P) > Len(T) THEN 0
    ELSE IF OccursAt(T, P, p, cs) THEN 1 + Occurrences(T, P, p + Len(P), cs)
    ELSE Occurrences(T, P, p + 1, cs)

\* C11: for a non-empty literal pattern without the whole-word option,
\* findMatches returns as count the number of non-overlapping left-to-right
\* occurrences of the pattern in the text, compared exactly when
\* isCaseSensitive and ignoring case otherwise.
C11_LiteralCountIsOccurrences ==
    (/\ Scanned
     /\ inp.pattern # <<>>
     /\ ~inp.options.isRegex
     /\ ~inp.options.isWholeWord)
        => /\ ~IsThrown(out.result)
           /\ out.result.v.count
                 = Occurrences(inp.text, inp.pattern, 0, inp.options.isCaseSensitive)

\* The literal pattern "." has been counted once in "a.a".
C11_Witness ==
    /\ Scanned
    /\ inp.pattern = <<".">>
    /\ inp.text = <<"a", ".", "a">>
    /\ ~inp.options.isRegex
    /\ ~inp.options.isWholeWord
    /\ out.result.v.count = 1

\* C12: for an empty pattern buildRegex returns null, findMatches returns
\* count 0 and no positions, and replaceAll and replaceInXml return their
\* input, whatever the text and the options.
C12_EmptyFindMatchesNothing ==
    (/\ out # NoCall
     /\ inp.pattern = <<>>
     /\ inp.fn = "findMatches" => out.pc = "done")
        => /\ IsNull(buildRegex(inp.pattern, inp.options))
           /\ inp.fn = "findMatches"
                 => /\ IsNull(out.regex)
                    /\ out.result = Val([count |-> 0, positions |-> <<>>])
           /\ inp.fn = "replaceAll" => out.result = Val(inp.text)
           /\ inp.fn = "replaceInXml" => out.result = Val(inp.xml)

\* The empty pattern, as a whole-word regex ignoring case, has been looked
\* for in "bb": nothing is found.
C12_Witness ==
    /\ Scanned
    /\ inp.pattern = <<>>
    /\ inp.text = <<"b", "b">>
    /\ inp.options = Options(FALSE, TRUE, TRUE)
    /\ IsNull(out.regex)
    /\ out.result.v.count = 0

RECURSIVE StandaloneSpans(_, _, _, _)
\* The occurrences of P in T from position p on that have no word character
\* right before or right after them.
StandaloneSpans(T, P, p, cs) ==
    IF p + Len(P) > Len(T) THEN <<>>
    ELSE (IF /\ OccursAt(T, P, p, cs)
             /\ ~(p >= 1 /\ T[p] \in WordChars)
             /\ ~(p + Len(P) + 1 <= Len(T) /\ T[p + Len(P) + 1] \in WordChars)
          THEN <<[start |-> p, end |-> p + Len(P), match |-> Slice(T, p, p + Len(P))]>>
          ELSE <<>>)
         \o StandaloneSpans(T, P, p + 1, cs)

\* C13: with the whole-word option and a literal pattern of word
\* characters, findMatches returns exactly the occurrences of the pattern
\* with no word character on either side.
C13_WholeWordStandalone ==
    (/\ Scanned
     /\ inp.options.isWholeWord
     /\ ~inp.options.isRegex
     /\ inp.pattern # <<>>
     /\ \A i \in 1..Len(inp.pattern) : inp.pattern[i] \in WordChars)
        => out.result
             = Val([count |-> Len(StandaloneSpans(inp.text, inp.pattern, 0,
                                                  inp.options.isCaseSensitive)),
                    positions |-> StandaloneSpans(inp.text, inp.pattern, 0,
                                                  inp.options.isCaseSensitive)])

\* "cat" as a whole word over "concatenate cat": one match, the last word.
C13_Witness ==
    /\ Scanned
    /\ inp.options.isWholeWord
    /\ ~inp.options.isRegex
    /\ inp.pattern = <<"c", "a", "t">>
    /\ Len(inp.text) = 15
    /\ out.result.v.count = 1
    /\ out.result.v.positions[1].start = 12

\* findMatches is in its loop.
Scanning == inp.fn = "findMatches" /\ out # NoCall /\ out.pc = "loop"

\* C14: the scan ends for every text and every expression: each turn of
\* the loop moves lastIndex forward, lastIndex never passes the end of the
\* text by more than one, and every call of findMatches returns; "a*" over
\* "bb" gives the three empty matches at 0, 1 and 2.
C14_ScanTerminates ==
    /\ [][Scanning /\ out'.pc = "loop" => out'.regex.lastIndex > out.regex.lastIndex]_vars
    /\ [](Scanning => out.regex.lastIndex <= Len(inp.text) + 1)
    /\ [](inp.fn = "findMatches" => <>Scanned)
    /\ []((/\ Scanned
           /\ inp.pattern = <<"a", "*">>
           /\ inp.options.isRegex
           /\ ~inp.options.isWholeWord
           /\ inp.text = <<"b", "b">>)
             => out.result.v.positions
                  = <<[start |-> 0, end |-> 0, match |-> <<>>],
                      [start |-> 1, end |-> 1, match |-> <<>>],
                      [start |-> 2, end |-> 2, match |-> <<>>]>>)

\* The scan of "bb" for the regex "a*" has returned three matches.
C14_Witness ==
    /\ Scanned
    /\ inp.pattern = <<"a", "*">>
    /\ inp.options.isRegex
    /\ ~inp.options.isWholeWord
    /\ inp.text = <<"b", "b">>
    /\ out.result.v.count = 3

\* C15: the positions findMatches has collected are spans of the text in
\* ascending order that do not overlap, and the count it returns is their
\* number.
C15_SpansAscending ==
    (inp.fn = "findMatches" /\ out # NoCall)
        => /\ \A k \in 1..Len(out.positions) :
                 /\ 0 <= out.positions[k].start
                 /\ out.positions[k].start <= out.positions[k].end
                 /\ out.positions[k].end <= Len(inp.text)
                 /\ k > 1 => out.positions[k - 1].end <= out.positions[k].start
           /\ (out.pc = "done" /\ ~IsThrown(out.result))
                 => /\ out.result.v.positions = out.positions
                    /\ out.result.v.count = Len(out.positions)

\* "a*" ignoring case over "aA b": the match "aA", then empty matches, the
\* first of them where "aA" ends.
C15_Witness ==
    /\ Scanned
    /\ inp.text = <<"a", "A", " ", "b">>
    /\ ~IsThrown(out.result)
    /\ out.result.v.count = 4
    /\ out.result.v.positions[1].end = 2
    /\ out.result.v.positions[2].start = 2

\* The pattern compiles and has no match in the text t.
NoMatchIn(t) ==
    /\ ~IsThrown(buildRegex(inp.pattern, inp.options))
    /\ findMatches(t, inp.pattern, inp.options).v.count = 0

\* C16 as stated: replaceAll returns its input text when the pattern has no
\* match in it, and replaceInXml returns its input when the pattern has no
\* match in the text of the document.
C16_NoMatchNoChange ==
    /\ (Returned("replaceAll") /\ NoMatchIn(inp.text)) => out.result = Val(inp.text)
    /\ (Returned("replaceInXml") /\ NoMatchIn(extractTextFromXml(inp.xml)))
          => out.result = Val(inp.xml)

\* C16 amended: replaceAll returns its input text when the pattern has no
\* match in it, and replaceInXml returns its input when the pattern has no
\* match in the text of any one paragraph.
C16_NoMatchInBlocksNoChange ==
    /\ (Returned("replaceAll") /\ NoMatchIn(inp.text)) => out.result = Val(inp.text)
    /\ (/\ Returned("replaceInXml")
        /\ ~IsThrown(buildRegex(inp.pattern, inp.options))
        /\ NoMatchInAnyParagraph)
          => out.result = Val(inp.xml)

\* "ab" has no match in "foo bar", which replaceAll returns as it is.
C16_Witness ==
    /\ Returned("replaceAll")
    /\ inp.pattern = <<"a", "b">>
    /\ inp.replacement = <<"b", "a", "z">>
    /\ inp.text = <<"f", "o", "o", " ", "b", "a", "r">>
    /\ NoMatchIn(inp.text)
    /\ out.result = Val(inp.text)

-----------------------------------------------------------------------------
(* Properties of the handlers: blank pairs, failed loads, invalid patterns *)
(* (under Spec).                                                           *)

\* The find field of a row has a character that is not white space.
HasFindText(row) == \E i \in 1..Len(row.find) : row.find[i] # " "

\* C17: the pairs a replace-all works with are the rows of the page whose
\* find field is not blank, in the order of the page; and a replace-all
\* that finds only blank rows changes nothing of the document state or the
\* page.
C17_BlankPairsDiscarded ==
    /\ []((ghost.hist # <<>> /\ ghost.hist[1] = "rep-start")
            => ghost.pairs = SelectSeq(ghost.rows, HasFindText))
    /\ [][(~ghost.blank /\ ghost'.blank)
            => /\ state' = state
               /\ zips' = zips
               /\ dom' = dom
               /\ rep' = rep
               /\ toast' = toast]_vars

\* Replace All has been clicked with only blank rows on the page: no
\* snapshot is kept and hasReplaced is false.
C17_Witness ==
    /\ ghost.blank
    /\ state.currentFile # NoFile
    /\ getPairs(dom.rows) = <<>>
    /\ IsNull(state.undoText)
    /\ ~state.hasReplaced

\* handleFileSelected ends in this step.
LoadEnds == load.pc # "idle" /\ load'.pc = "idle"

\* C18: when the load of a newly selected file fails, every field of the
\* document state is what it was before the file was selected.
C18_FailedLoadKeepsState ==
    [][(LoadEnds /\ toast' = "load-error" /\ ~IsNull(load.before))
          => Val(Snapshot(state', zips')) = load.before]_vars

ErrorToasts == {"load-error", "replace-error"}

\* C20: when an edit of the rows or the options leaves an invalid pattern
\* for the preview, the step shows an error notification and leaves the
\* document state as it is; and after a replace-all that failed, the error
\* notification is shown and the text and the payload are what they were
\* before it.
C20_InvalidPatternReported ==
    /\ [][(/\ <<dom'.rows, dom'.options>> # <<dom.rows, dom.options>>
           /\ state' = state
           /\ IsThrown(handleInputChange(state, [dom EXCEPT !.rows = dom'.rows,
                                                             !.options = dom'.options])))
            => toast' \in ErrorToasts]_vars
    /\ [](ghost.hist = <<"rep-start", "rep-fail">>
            => /\ toast \in ErrorToasts
               /\ rep.pc = "idle"
               /\ state.currentText = ghost.preText
               /\ Payload(zips, state.currentZip) = ghost.prePayload)

-----------------------------------------------------------------------------
(* Properties of the handlers: serialization and the life of the document  *)
(* state (under RaceSpec and Spec).                                        *)

\* A handler is suspended at an await.
InFlight == load.pc # "idle" \/ rep.pc # "idle" \/ undo.pc # "idle"

\* This step is a user event that starts a load, a replace-all or an undo
\* that suspends, or removes the file.
Starts ==
    \/ load.pc = "idle" /\ load'.pc # "idle"
    \/ rep.pc = "idle" /\ rep'.pc # "idle"
    \/ undo.pc = "idle" /\ undo'.pc # "idle"
    \/ ~dom.fileInfoHidden /\ dom'.fileInfoHidden

\* C21: while a load, a replace-all or an undo is in flight, no load,
\* replace-all, undo or file removal starts.
C21_OperationsSerialized == [][InFlight => ~Starts]_vars

\* The text of a file as a successful load extracts it.
FileText(f) ==
    IF f = NoFile THEN <<>>
    ELSE IF FileData[f].ext = ".docx"
    THEN (IF IsNull(FileData[f].xml) THEN <<>> ELSE extractTextFromXml(FileData[f].xml.v))
    ELSE FileData[f].text

\* C22: the step that removes the file leaves every field of the document
\* state empty, with no snapshot and hasReplaced false; the step that ends
\* a load in success leaves no snapshot, hasReplaced false, and the text
\* of the new file as originalText and currentText.
C22_StateDiscarded ==
    [][/\ (~dom.fileInfoHidden /\ dom'.fileInfoHidden) => state' = InitState
       /\ (LoadEnds /\ toast' = "load-success")
             => /\ IsNull(state'.undoText)
                /\ state'.undoZip = NoZip
                /\ ~state'.hasReplaced
                /\ state'.originalText = FileText(load.file)
                /\ state'.currentText = FileText(load.file)]_vars

\* C28: when no load is pending, the loaded text is that of the current
\* file (the empty text when there is none), whatever was selected or
\* removed while a load was in flight.
C28_LoadedTextIsCurrentFile ==
    load.pc = "idle" => state.originalText = FileText(state.currentFile)

\* No handler is suspended.
Idle == ~InFlight

\* C26: for a loaded .docx with no operation in flight, currentText is the
\* text extracted from the payload of currentZip.
C26_TextIsPayloadText ==
    (Idle /\ state.fileType = "docx" /\ ghost.hist # <<"other">>)
        => /\ ~IsNull(Payload(zips, state.currentZip))
           /\ state.currentText = extractTextFromXml(Payload(zips, state.currentZip).v)

\* C27: with no operation in flight, a snapshot is held exactly when
\* hasReplaced is true.
C27_SnapshotIffReplaced ==
    Idle => (~IsNull(state.undoText) <=> state.hasReplaced)

\* C29: a step that neither belongs to a load nor removes the file (an
\* edit, a step of a replace-all or of an undo) leaves originalText and the
\* payload of originalZip as they are.
C29_OriginalUntouched ==
    [][(load.pc = "idle" /\ load'.pc = "idle" /\ state'.currentFile = state.currentFile)
          => /\ state'.originalText = state.originalText
             /\ Payload(zips', state'.originalZip) = Payload(zips, state.originalZip)]_vars

-----------------------------------------------------------------------------
(* Properties of the structured replacer and of whole-word patterns        *)
(* (under PureSpec and ScanSpec).                                          *)

\* The places of the "<w:t" openings of a string, and the k-th of them.
RawOpenings(s) == {i \in 1..Len(s) : s[i] = "<w:t"}

RawOpening(s, k) ==
    CHOOSE i \in RawOpenings(s) : Cardinality({j \in RawOpenings(s) : j <= i}) = k

\* The attributes of the opening at i (up to its ">") and the characters
\* from there to the next "</w:t".
RawAttrs(s, i) == SubSeq(s, i + 1, FirstIndex(s, i + 1, {">"}) - 1)

RawText(s, i) ==
    SubSeq(s, FirstIndex(s, i + 1, {">"}) + 1,
           FirstIndex(s, FirstIndex(s, i + 1, {">"}) + 1, {"</w:t"}) - 1)

\* C23: in the block replaceInParagraph returns after a change, every text
\* element with text carries xml:space="preserve" and every empty one the
\* attributes it had in the input.
C23_NonEmptyFragmentsPreserve ==
    ChangesBlock
        => /\ Cardinality(RawOpenings(out.result.xml)) = Cardinality(RawOpenings(inp.xml))
           /\ \A k \in 1..Cardinality(RawOpenings(inp.xml)) :
                 RawAttrs(out.result.xml, RawOpening(out.result.xml, k))
                    = IF RawText(out.result.xml, RawOpening(out.result.xml, k)) # <<>>
                      THEN PreserveAttr
                      ELSE RawAttrs(inp.xml, RawOpening(inp.xml, k))

\* A block of two elements, the first without attributes and the second
\* with xml:space="preserve", is changed: the first now has text and the
\* attribute, the second is empty and has kept its attribute.
C23_Witness ==
    /\ ChangesBlock
    /\ Cardinality(RawOpenings(inp.xml)) = 2
    /\ RawAttrs(inp.xml, RawOpening(inp.xml, 1)) = <<>>
    /\ RawAttrs(inp.xml, RawOpening(inp.xml, 2)) = PreserveAttr
    /\ RawText(out.result.xml, RawOpening(out.result.xml, 1)) # <<>>
    /\ RawAttrs(out.result.xml, RawOpening(out.result.xml, 1)) = PreserveAttr
    /\ RawText(out.result.xml, RawOpening(out.result.xml, 2)) = <<>>
    /\ RawAttrs(out.result.xml, RawOpening(out.result.xml, 2)) = PreserveAttr

RECURSIVE Outside(_, _, _, _)
\* The string with each of its text elements segs[k..] left out.
Outside(xml, segs, k, pos) ==
    IF k > Len(segs) THEN SliceFrom(xml, pos)
    ELSE Slice(xml, pos, segs[k].start) \o Outside(xml, segs, k + 1, segs[k].end)

\* C24: the payload replaceInXml returns has as many text elements as its
\* input, and the same markup outside them.
C24_NonTextStructurePreserved ==
    (Returned("replaceInXml") /\ ~IsThrown(out.result))
        => /\ Len(Segments(out.result.v, 0)) = Len(Segments(inp.xml, 0))
           /\ Outside(out.result.v, Segments(out.result.v, 0), 1, 0)
                 = Outside(inp.xml, Segments(inp.xml, 0), 1, 0)

\* A word boundary of the text after its first p characters.
IsBoundary(text, p) == IsWordAt(text, p) # IsWordAt(text, p + 1)

\* C25: with the whole-word option in regex mode every match findMatches
\* reports starts and ends at a word boundary of the text.
C25_WholeWordBothBoundaries ==
    (/\ Scanned
     /\ inp.options.isWholeWord
     /\ inp.options.isRegex
     /\ ~IsThrown(out.result))
        => \A k \in 1..Len(out.result.v.positions) :
              /\ IsBoundary(inp.text, out.result.v.positions[k].start)
              /\ IsBoundary(inp.text, out.result.v.positions[k].end)

====
